---------------------------- MODULE Spec2Model ----------------------------
(***************************************************************************)
(* Funding-rate dashboard (src/app.py and src/streamlit_app.py).           *)
(*                                                                         *)
(* The two scripts are two variants of one program: both fetch a funding   *)
(* rate per symbol from Binance and from Bybit through a chain of          *)
(* endpoints, reconcile the two rates into one row per symbol, store the   *)
(* result in the session state and render it.  The variable "variant"      *)
(* says which script is running.                                           *)
(*                                                                         *)
(* Rates are integers in units of 10^-7 (0.0001 is 1000).                  *)
(***************************************************************************)
EXTENDS Integers, Sequences, FiniteSets, TLC

VARIABLES
    variant,          \* "app" (src/app.py) or "streamlit" (src/streamlit_app.py)
    market,           \* the funding rates each exchange quotes during the session
    call,             \* the fetcher call under way: its inputs, its requests, its result
    pc,               \* where the script run is: idle, start, loop, display, tail, crashed
    clock,            \* ticks of wall-clock time gone by
    clicked,          \* the "Refresh Now" button was pressed for this run
    ss,               \* st.session_state: a function from the keys that are set
    current_time,     \* the script's current_time
    idx,              \* the position in symbols of the next loop iteration
    loc,              \* the locals of the reconciliation pass
    rendered,         \* what the run has put on the page (NoPage until it renders)
    timer             \* the rerun the browser has scheduled: none, inert, autorefresh,
                      \* reload, reload_due

-----------------------------------------------------------------------------
(* Optional decimals: Python's None and a float.                           *)

None == [isNone |-> TRUE, val |-> 0]

Some(r) == [isNone |-> FALSE, val |-> r]

(* The rates a well-formed payload carries. -1000 is -0.0001, 1 is 1e-7.   *)
Rates == {-1000, 0, 1}

Variants == {"app", "streamlit"}

-----------------------------------------------------------------------------
(* What one HTTP attempt can come to.  "ok" carries a rate; the others are *)
(* the failures the scripts meet:                                          *)
(*   timeout, conn  requests.get raises                                    *)
(*   status         the response has an error status (4xx/5xx)             *)
(*   badjson        the body is not JSON: r.json() raises                  *)
(*   wrongtype      the body is a non-zero JSON number, not an object or   *)
(*                  a list                                                 *)
(*   nokey          a JSON object without the expected top-level key       *)
(*                  (lastFundingRate; retCode/result)                      *)
(*   empty          the expected container is there and empty ({} or []    *)
(*                  for Binance, result.list == [] for Bybit)              *)
(*   norate         the first entry has no fundingRate key                 *)
(*   nullrate       the funding-rate field is null                         *)
(*   unparsable     the funding-rate field is not a number: float() raises *)

FailureKinds ==
    {"timeout", "conn", "status", "badjson", "wrongtype", "nokey", "empty",
     "norate", "nullrate", "unparsable"}

Failure(k) == [kind |-> k, rate |-> 0]

Ok(r) == [kind |-> "ok", rate |-> r]

Responses == {Failure(k) : k \in FailureKinds} \cup {Ok(r) : r \in Rates}

(* A chain that requests the primary endpoint a second time before it     *)
(* goes on.                                                                *)
BinanceChainWithRetry(v) ==
    IF v = "app"
    THEN <<"BINANCE_PREMIUM_URL", "BINANCE_PREMIUM_URL", "BINANCE_FUNDING_URL">>
    ELSE <<"BINANCE_PREMIUM_URL", "BINANCE_PREMIUM_URL",
           "ALTERNATIVE_BINANCE_URL", "BINANCE_FUNDING_URL">>

(* The endpoints, by the name of the URL constant.                          *)
BinanceChain(v) ==
    IF v = "app"
    THEN <<"BINANCE_PREMIUM_URL", "BINANCE_FUNDING_URL">>
    ELSE <<"BINANCE_PREMIUM_URL", "ALTERNATIVE_BINANCE_URL", "BINANCE_FUNDING_URL">>

BybitChain(v) == <<"BYBIT_TICKERS_URL", "BYBIT_FUNDING_URL">>

RequestsOnlyCatches(exc) == exc \in {"Timeout", "ConnectionError", "HTTPError"}

(* The exceptions an except-clause of the fetchers catches: "except        *)
(* Exception" catches every exception class the attempt can raise.         *)
Catches(exc) ==
    exc \in {"Timeout", "ConnectionError", "HTTPError", "JSONDecodeError",
             "TypeError", "KeyError", "ValueError", "AttributeError"}

(* What the code of one attempt does with a response: "return" (the rate   *)
(* is returned), "fall" (no exception, control goes on to the code after   *)
(* the attempt), or the class of the exception it raises.                  *)

\* requests.get and the status check, common to the four parsers.
Transport(v, resp) ==
    CASE resp.kind = "timeout" -> "Timeout"
      [] resp.kind = "conn" -> "ConnectionError"
      [] resp.kind = "status" -> IF v = "app" THEN "HTTPError" ELSE "fall"
      [] resp.kind = "badjson" -> "JSONDecodeError"
      [] OTHER -> "parse"

\* if data and "lastFundingRate" in data: return float(data["lastFundingRate"])
PremiumIndex(v, resp) ==
    IF Transport(v, resp) # "parse" THEN Transport(v, resp)
    ELSE CASE resp.kind = "wrongtype" -> "TypeError"
           [] resp.kind \in {"nokey", "empty", "norate"} -> "fall"
           [] resp.kind = "nullrate" -> "TypeError"
           [] resp.kind = "unparsable" -> "ValueError"
           [] OTHER -> "return"

\* if data and len(data) > 0: return float(data[0]["fundingRate"])
BinanceHistory(v, resp) ==
    IF Transport(v, resp) # "parse" THEN Transport(v, resp)
    ELSE CASE resp.kind = "wrongtype" -> "TypeError"
           [] resp.kind = "nokey" -> "KeyError"
           [] resp.kind = "empty" -> "fall"
           [] resp.kind = "norate" -> "KeyError"
           [] resp.kind = "nullrate" -> "TypeError"
           [] resp.kind = "unparsable" -> "ValueError"
           [] OTHER -> "return"

\* app: data["retCode"] == 0 and data["result"]["list"]; streamlit: data.get(...)
BybitTickers(v, resp) ==
    IF Transport(v, resp) # "parse" THEN Transport(v, resp)
    ELSE CASE resp.kind = "wrongtype" ->
                IF v = "app" THEN "TypeError" ELSE "AttributeError"
           [] resp.kind = "nokey" -> IF v = "app" THEN "KeyError" ELSE "fall"
           [] resp.kind \in {"empty", "norate", "nullrate"} -> "fall"
           [] resp.kind = "unparsable" -> "ValueError"
           [] OTHER -> "return"

BybitHistory(v, resp) ==
    IF Transport(v, resp) # "parse" THEN Transport(v, resp)
    ELSE CASE resp.kind = "wrongtype" ->
                IF v = "app" THEN "TypeError" ELSE "AttributeError"
           [] resp.kind = "nokey" -> IF v = "app" THEN "KeyError" ELSE "fall"
           [] resp.kind = "empty" -> "fall"
           [] resp.kind = "norate" -> "KeyError"
           [] resp.kind = "nullrate" -> "TypeError"
           [] resp.kind = "unparsable" -> "ValueError"
           [] OTHER -> "return"

Attempt(v, endpoint, resp) ==
    CASE endpoint \in {"BINANCE_PREMIUM_URL", "ALTERNATIVE_BINANCE_URL"} ->
            PremiumIndex(v, resp)
      [] endpoint = "BINANCE_FUNDING_URL" -> BinanceHistory(v, resp)
      [] endpoint = "BYBIT_TICKERS_URL" -> BybitTickers(v, resp)
      [] OTHER -> BybitHistory(v, resp)

(***************************************************************************)
(* A fetcher call.  resps[i] is what the i-th endpoint of the chain        *)
(* answers if it is requested.  The result says what was requested, in     *)
(* order (log), whether an exception left the function (raised) and the    *)
(* value returned (ret).                                                   *)
(*   app.py: the whole chain is in one try block, so an exception raised   *)
(*   by any attempt goes to the one handler, which returns None.           *)
(*   streamlit_app.py: every attempt has its own try/except: pass.         *)
(***************************************************************************)
RECURSIVE RunChain(_, _, _, _, _)
RunChain(v, chain, resps, i, log) ==
    IF i > Len(chain)
    THEN [raised |-> FALSE, ret |-> None, log |-> log]
    ELSE LET out == Attempt(v, chain[i], resps[i])
             log2 == Append(log, [endpoint |-> chain[i], kind |-> resps[i].kind])
         IN  CASE out = "return" ->
                    [raised |-> FALSE, ret |-> Some(resps[i].rate), log |-> log2]
               [] out = "fall" -> RunChain(v, chain, resps, i + 1, log2)
               [] OTHER ->
                    IF ~Catches(out)
                    THEN [raised |-> TRUE, ret |-> None, log |-> log2]
                    ELSE IF v = "app"
                         THEN [raised |-> FALSE, ret |-> None, log |-> log2]
                         ELSE RunChain(v, chain, resps, i + 1, log2)

get_binance_funding(v, resps) == RunChain(v, BinanceChain(v), resps, 1, <<>>)

get_bybit_funding(v, resps) == RunChain(v, BybitChain(v), resps, 1, <<>>)

RespSeqs(n) == [1..n -> Responses]

-----------------------------------------------------------------------------
(* The configured list: the first MaxSymbols entries of symbols.            *)
MaxSymbols == 2

AllSymbols == <<"BTCUSDT", "ETHUSDT", "SOLUSDT", "ADAUSDT", "DOTUSDT">>

symbols == SubSeq(AllSymbols, 1, MaxSymbols)

(* Time: the seconds after which the gate lets a new pass through, and the *)
(* clock, of which one tick is that many seconds; time.time() is never 0.  *)
RefreshAfter == 60

MaxTicks == 2

Now == (clock + 1) * RefreshAfter

(* 0.0001 in units of 10^-7.                                                *)
SignificantDiff == 1000

-----------------------------------------------------------------------------
(* format_funding_rate.  The percentage is rate * 100, so in units of      *)
(* 10^-5 percent it is the rate itself.  A string is modelled by the       *)
(* format chosen, the digits printed (mant) and the power of ten of the    *)
(* last digit (exp): "0.0100%" is f4 with mant 100; "1.00e-05%" is e2      *)
(* with mant 100 and exponent -5.                                          *)
Abs(x) == IF x < 0 THEN -x ELSE x

(* The rates formatted on their own range over -MaxRate..MaxRate.          *)
MaxRate == 125

(* rate * 100 is a product of IEEE doubles.  For a rate read from decimal  *)
(* text the product is the double nearest to the decimal percentage, or    *)
(* the double next to it.  ProductShort lists the magnitudes up to 130     *)
(* (units of 10^-7) whose product is the next double below: 0.000001 * 100 *)
(* is 9.999999999999999e-05, not 0.0001.  ProductBelowDecimal lists the    *)
(* magnitudes ending in 5 whose product lies below the decimal percentage, *)
(* which decides how a .4f tie falls: 0.0000105 * 100 prints as 0.0010,    *)
(* 0.0000125 * 100 as 0.0013.  Greater magnitudes that the dashboard       *)
(* formats in this model (1000, 1001) are neither short nor ties.          *)
ProductShort ==
    {1, 2, 3, 4, 5, 6, 8, 9, 10, 12, 16, 18, 20, 21, 24, 32, 36, 40, 42, 48,
     64, 72, 80, 84, 91, 96, 103, 119, 128}

ProductBelowDecimal == {105, 115}

Times100(r) == [units |-> r, short |-> Abs(r) \in ProductShort]

(* abs(percentage) >= literal, the literal being the double nearest to     *)
(* literal * 10^-5.                                                        *)
AbsAtLeast(percentage, literal) ==
    \/ Abs(percentage.units) > literal
    \/ Abs(percentage.units) = literal /\ ~percentage.short

AbsAbove(percentage, literal) == Abs(percentage.units) > literal

(* Rounding of x / d to an integer as the f conversion does it: on the     *)
(* exact binary value, so a decimal tie falls to the side the double is on.*)
RoundDiv(x, d) ==
    LET q == Abs(x) \div d
        r == Abs(x) % d
        m == IF 2 * r > d \/ (2 * r = d /\ Abs(x) \notin ProductBelowDecimal)
             THEN q + 1 ELSE q
    IN  IF x < 0 THEN -m ELSE m

ERR == [fmt |-> "ERR", mant |-> 0, exp |-> 0, suffix |-> ""]

(* The three return statements: large selects .4f, mid .5f, neither .2e.   *)
Layout(large, mid, percentage) ==
    IF large
    THEN [fmt |-> "f4", mant |-> RoundDiv(percentage.units, 10), exp |-> -4,
          suffix |-> "%"]
    ELSE IF mid
    THEN [fmt |-> "f5", mant |-> percentage.units, exp |-> -5, suffix |-> "%"]
    ELSE IF Abs(percentage.units) = 10
    THEN [fmt |-> "e2", mant |-> percentage.units * 10, exp |-> -4,
          suffix |-> "%"]
    ELSE [fmt |-> "e2", mant |-> percentage.units * 100,
          exp |-> IF percentage.units = 0 THEN 0 ELSE -5, suffix |-> "%"]

format_exclusive(rate) ==
    IF rate.isNone THEN ERR
    ELSE LET percentage == Times100(rate.val)
         IN  Layout(AbsAbove(percentage, 100), AbsAbove(percentage, 10),
                    percentage)

format_funding_rate(rate) ==
    IF rate.isNone THEN ERR
    ELSE LET percentage == Times100(rate.val)
         IN  Layout(AbsAtLeast(percentage, 100), AbsAtLeast(percentage, 10),
                    percentage)

-----------------------------------------------------------------------------
(* The reconciliation loop.                                                *)

InitLocals ==
    [rows |-> <<>>, total_symbols |-> 0, error_count |-> 0, max_diff |-> 0,
     max_diff_symbol |-> "", debug_info |-> <<>>]

OneResolved(b_rate, y_rate) == ~b_rate.isNone \/ ~y_rate.isNone

\* b_rate is not None and y_rate is not None
BothResolved(b_rate, y_rate) == ~b_rate.isNone /\ ~y_rate.isNone

SignedDiff(b_rate, y_rate) == b_rate.val - y_rate.val

\* diff = abs(b_rate - y_rate)
AbsDiff(b_rate, y_rate) == Abs(b_rate.val - y_rate.val)

PrependRow(rows, row) == <<row>> \o rows

\* rows.append(...)
AppendRow(rows, row) == Append(rows, row)

Row(symbol, b_text, y_text, d_text, b_raw, y_raw, d_raw) ==
    [k \in {"Symbol", "Binance", "Bybit", "Abs Diff", "Binance_Raw", "Bybit_Raw",
            "Abs_Diff_Raw"} |->
        CASE k = "Symbol" -> symbol
          [] k = "Binance" -> b_text
          [] k = "Bybit" -> y_text
          [] k = "Abs Diff" -> d_text
          [] k = "Binance_Raw" -> b_raw
          [] k = "Bybit_Raw" -> y_raw
          [] OTHER -> d_raw]

\* The row of a symbol with a rate missing.
ErrorRow(v, symbol, b_rate, y_rate) ==
    IF v = "app"
    THEN Row(symbol, ERR, ERR, ERR, None, None, None)
    ELSE Row(symbol, format_funding_rate(b_rate), format_funding_rate(y_rate), ERR,
             b_rate, y_rate, None)

\* One iteration of "for symbol in symbols", after the two fetches.
LoopBody(v, l, symbol, b_rate, y_rate) ==
    LET counted == [l EXCEPT !.total_symbols = @ + 1,
                             !.debug_info = Append(@, [symbol |-> symbol,
                                 binance_raw |-> b_rate, bybit_raw |-> y_rate])]
    IN  IF BothResolved(b_rate, y_rate)
        THEN LET diff == AbsDiff(b_rate, y_rate)
                 maxed == IF diff > counted.max_diff
                          THEN [counted EXCEPT !.max_diff = diff,
                                               !.max_diff_symbol = symbol]
                          ELSE counted
             IN  [maxed EXCEPT !.rows = AppendRow(@,
                     Row(symbol, format_funding_rate(b_rate),
                         format_funding_rate(y_rate),
                         format_funding_rate(Some(diff)), b_rate, y_rate,
                         Some(diff)))]
        ELSE [counted EXCEPT !.error_count = @ + 1,
                             !.rows = AppendRow(@, ErrorRow(v, symbol, b_rate, y_rate))]

StopAtFirstError(i, l) == i > Len(symbols) \/ l.error_count > 0

\* The for loop is over when every symbol has had its iteration.
LoopDone(i, l) == i > Len(symbols)

-----------------------------------------------------------------------------
(* What a fetcher call can hand to the loop, over every combination of     *)
(* responses of its chain.                                                 *)
Outcome(r) == [raised |-> r.raised, ret |-> r.ret]

BinanceOutcomesApp ==
    {Outcome(get_binance_funding("app", resps)) : resps \in RespSeqs(2)}

BinanceOutcomesStreamlit ==
    {Outcome(get_binance_funding("streamlit", resps)) : resps \in RespSeqs(3)}

BybitOutcomesApp ==
    {Outcome(get_bybit_funding("app", resps)) : resps \in RespSeqs(2)}

BybitOutcomesStreamlit ==
    {Outcome(get_bybit_funding("streamlit", resps)) : resps \in RespSeqs(2)}

\* The outcomes that carry a rate the exchange quotes, or none.
Quoted(outcomes, rates) == {o \in outcomes : o.ret.isNone \/ o.ret.val \in rates}

BinanceOutcomes(v, m) ==
    Quoted(IF v = "app" THEN BinanceOutcomesApp ELSE BinanceOutcomesStreamlit,
           m.binance)

BybitOutcomes(v, m) ==
    Quoted(IF v = "app" THEN BybitOutcomesApp ELSE BybitOutcomesStreamlit, m.bybit)

(* The markets of a session with reruns (a few rates each, which keeps the *)
(* sessions finite and small), and the market of a single run.            *)
SessionMarkets ==
    {[binance |-> {-1000, 1}, bybit |-> {1}], [binance |-> {0}, bybit |-> {0, 1}]}

WholeMarket == [binance |-> Rates, bybit |-> Rates]

-----------------------------------------------------------------------------
(* create_styled_dataframe.  The styler is applied to display_df, which    *)
(* holds the four display columns only; highlight_rows gets a row of it.   *)

DisplayColumns == {"Symbol", "Binance", "Bybit", "Abs Diff"}

display_df(data) ==
    [i \in 1..Len(data) |-> [c \in DisplayColumns |-> data[i][c]]]

Green == "color: #51cf66;"

Red == "color: #ff6b6b;"

Grey == "color: #868e96;"

Significant == "color: #ffd43b; font-weight: bold;"

\* pd.notna
notna(x) == ~x.isNone

get_rate_color(rate) ==
    IF rate.isNone THEN Red
    ELSE IF rate.val > 0 THEN Green
    ELSE IF rate.val < 0 THEN Red
    ELSE Grey

\* row[col] if col in row and pd.notna(row[col]) else None
RawOf(row, col) ==
    IF col \in DOMAIN row /\ notna(row[col]) THEN row[col] ELSE None

\* styles[k] of the source is styles[k + 1] here.
highlight_rows(row) ==
    LET binance_rate == RawOf(row, "Binance_Raw")
        bybit_rate == RawOf(row, "Bybit_Raw")
    IN  << "",
           IF ~binance_rate.isNone THEN get_rate_color(binance_rate) ELSE Red,
           IF ~bybit_rate.isNone THEN get_rate_color(bybit_rate) ELSE Red,
           IF "Abs_Diff_Raw" \in DOMAIN row /\ notna(row["Abs_Diff_Raw"])
              /\ row["Abs_Diff_Raw"].val > SignificantDiff
           THEN Significant ELSE "" >>

create_styled_dataframe(data) ==
    [i \in 1..Len(data) |-> highlight_rows(display_df(data)[i])]

-----------------------------------------------------------------------------
(* The session state.                                                      *)

Has(key) == key \in DOMAIN ss

Set(s, key, value) == [k \in DOMAIN s \cup {key} |-> IF k = key THEN value ELSE s[k]]

\* if 'last_refresh' not in st.session_state: ...; streamlit also sets data.
InitSession(v, s) ==
    LET s1 == IF "last_refresh" \in DOMAIN s THEN s ELSE Set(s, "last_refresh", 0)
    IN  IF v = "streamlit" /\ "data" \notin DOMAIN s1 THEN Set(s1, "data", <<>>) ELSE s1

(* A gate that also opens when exactly RefreshAfter seconds have gone by.  *)
should_refresh_inclusive(s, t) ==
    t - s["last_refresh"] >= RefreshAfter \/ s["last_refresh"] = 0

should_refresh(s, t) == t - s["last_refresh"] > RefreshAfter \/ s["last_refresh"] = 0

\* st.session_state.data = rows ... st.session_state.last_refresh = current_time
Store(s, l, t) ==
    [k \in DOMAIN s \cup {"data", "total_symbols", "error_count", "max_diff",
                          "max_diff_symbol", "last_refresh"} |->
        CASE k = "data" -> l.rows
          [] k = "total_symbols" -> l.total_symbols
          [] k = "error_count" -> l.error_count
          [] k = "max_diff" -> l.max_diff
          [] k = "max_diff_symbol" -> l.max_diff_symbol
          [] k = "last_refresh" -> t
          [] OTHER -> s[k]]

NoPage == [total |-> 0, active |-> 0, errors |-> 0, max_diff |-> ERR, delta |-> "",
           table |-> <<>>, shown |-> FALSE]

\* The metrics and the table.  app.py reads the attributes; streamlit_app.py
\* reads them with .get(key, 0).
Get(s, key, default) == IF key \in DOMAIN s THEN s[key] ELSE default

Page(s) ==
    [total |-> Get(s, "total_symbols", 0),
     active |-> Get(s, "total_symbols", 0) - Get(s, "error_count", 0),
     errors |-> Get(s, "error_count", 0),
     max_diff |-> format_funding_rate(Some(Get(s, "max_diff", 0))),
     delta |-> Get(s, "max_diff_symbol", ""),
     table |-> IF s["data"] # <<>> THEN create_styled_dataframe(s["data"]) ELSE <<>>,
     shown |-> TRUE]

-----------------------------------------------------------------------------
NoCall == [exchange |-> "none", resps |-> <<>>, raised |-> FALSE, ret |-> None,
           log |-> <<>>]

vars ==
    <<variant, market, call, pc, clock, clicked, ss, current_time, idx, loc, rendered,
      timer>>

mainvars == <<pc, clock, clicked, ss, current_time, idx, loc, rendered, timer>>

InitRun ==
    /\ variant \in Variants
    /\ call = NoCall
    /\ pc = "start"
    /\ clock = 0
    /\ clicked = FALSE
    /\ ss = << >>
    /\ current_time = 0
    /\ idx = 1
    /\ loc = InitLocals
    /\ rendered = NoPage
    /\ timer = "none"

Init == InitRun /\ market \in SessionMarkets

InitPass == InitRun /\ market = WholeMarket

(* Time goes by while the page is shown: RefreshAfter seconds a tick.  The  *)
(* 30 seconds of st_autorefresh end before a tick does, and the 60 seconds *)
(* of the page's setTimeout end with the first tick after it was set.      *)
Tick ==
    /\ pc = "idle"
    /\ clock < MaxTicks
    /\ timer \notin {"autorefresh", "reload_due"}
    /\ clock' = clock + 1
    /\ timer' = IF timer = "reload" THEN "reload_due" ELSE timer
    /\ UNCHANGED <<variant, market, call, pc, clicked, ss, current_time, idx, loc, rendered>>

(* The frontend asks for a rerun: a widget interaction or a refresh timer. *)
Rerun ==
    /\ pc = "idle"
    /\ pc' = "start"
    /\ UNCHANGED <<variant, market, call, timer, clock, clicked, ss, current_time, idx, loc, rendered>>

(* The user presses "Refresh Now": the script is rerun with the button on. *)
ClickRefresh ==
    /\ pc = "idle"
    /\ pc' = "start"
    /\ clicked' = TRUE
    /\ UNCHANGED <<variant, market, call, timer, clock, ss, current_time, idx, loc, rendered>>

(* The top of the script: the session state's defaults and the gate.  The  *)
(* elements of the page are placed anew by the run.                        *)
StartRun ==
    /\ pc = "start"
    /\ ss' = InitSession(variant, ss)
    /\ current_time' = Now
    /\ IF should_refresh(ss', Now)
       THEN /\ pc' = "loop"
            /\ idx' = 1
            /\ loc' = InitLocals
       ELSE /\ pc' = "display"
            /\ UNCHANGED <<idx, loc>>
    /\ rendered' = NoPage
    /\ timer' = IF variant = "app"
                THEN IF should_refresh(ss', Now) THEN "autorefresh" ELSE "none"
                ELSE timer
    /\ UNCHANGED <<variant, market, call, clock, clicked>>

(* One iteration of the loop: the two fetches and the classification.  An  *)
(* exception that leaves a fetcher ends the run.                           *)
ReconcileSymbol ==
    /\ pc = "loop"
    /\ ~LoopDone(idx, loc)
    /\ \E b \in BinanceOutcomes(variant, market) :
          IF b.raised
          THEN pc' = "crashed" /\ UNCHANGED <<idx, loc>>
          ELSE \E y \in BybitOutcomes(variant, market) :
                  IF y.raised
                  THEN pc' = "crashed" /\ UNCHANGED <<idx, loc>>
                  ELSE /\ loc' = LoopBody(variant, loc, symbols[idx], b.ret, y.ret)
                       /\ idx' = idx + 1
                       /\ pc' = "loop"
    /\ UNCHANGED <<variant, market, call, timer, clock, clicked, ss, current_time, rendered>>

(* After the loop: the result goes to the session state.                   *)
StoreResult ==
    /\ pc = "loop"
    /\ LoopDone(idx, loc)
    /\ ss' = Store(ss, loc, current_time)
    /\ pc' = "display"
    /\ UNCHANGED <<variant, market, call, timer, clock, clicked, current_time, idx, loc, rendered>>

(* The metrics and the table.  app.py reads st.session_state.total_symbols *)
(* and the like as attributes, which raises when they are not set.         *)
Display ==
    /\ pc = "display"
    /\ IF variant = "app" /\ ~({"total_symbols", "error_count", "max_diff",
                               "max_diff_symbol", "data"} \subseteq DOMAIN ss)
       THEN pc' = "crashed" /\ UNCHANGED rendered
       ELSE pc' = "tail" /\ rendered' = Page(ss)
    /\ UNCHANGED <<variant, market, call, timer, clock, clicked, ss, current_time, idx, loc>>

(* The end of the script: the button, streamlit_app.py's countdown and,    *)
(* when st.rerun() has not ended the run before, its <script> element.     *)
(* Whether the browser runs a script element that arrives as markdown      *)
(* HTML is the browser's affair: the element is inert, or it sets the      *)
(* timeout, once, when it is first placed on the page.                     *)
EndRun ==
    /\ pc = "tail"
    /\ IF clicked
       THEN /\ ss' = Set(ss, "last_refresh", 0)
            /\ pc' = "start"
            /\ UNCHANGED timer
       ELSE IF variant = "streamlit" /\ ss["last_refresh"] > 0
               /\ RefreshAfter - (Now - ss["last_refresh"]) <= 0
            THEN /\ ss' = Set(ss, "last_refresh", 0)
                 /\ pc' = "start"
                 /\ UNCHANGED timer
            ELSE /\ pc' = "idle"
                 /\ UNCHANGED ss
                 /\ IF variant = "streamlit" /\ timer = "none"
                    THEN timer' \in {"inert", "reload"}
                    ELSE UNCHANGED timer
    /\ clicked' = FALSE
    /\ UNCHANGED <<variant, market, call, clock, current_time, idx, loc, rendered>>

(* The interval of st_autorefresh ends: the component asks for a rerun.    *)
TimerFires ==
    /\ pc = "idle"
    /\ timer = "autorefresh"
    /\ pc' = "start"
    /\ UNCHANGED <<variant, market, call, clock, clicked, ss, current_time, idx, loc,
                   rendered, timer>>

(* window.location.reload(): the page is loaded anew, in a new session.    *)
Reload ==
    /\ pc = "idle"
    /\ timer = "reload_due"
    /\ pc' = "start"
    /\ clicked' = FALSE
    /\ ss' = << >>
    /\ current_time' = 0
    /\ idx' = 1
    /\ loc' = InitLocals
    /\ rendered' = NoPage
    /\ timer' = "none"
    /\ UNCHANGED <<variant, market, call, clock>>

Next ==
    \/ Tick
    \/ Rerun
    \/ ClickRefresh
    \/ StartRun
    \/ ReconcileSymbol
    \/ StoreResult
    \/ Display
    \/ EndRun

Spec == Init /\ [][Next]_vars

(* One script run on a fresh session, with every rate on the market.       *)
NextPass ==
    \/ StartRun
    \/ ReconcileSymbol
    \/ StoreResult
    \/ Display
    \/ EndRun

SpecPass == InitPass /\ [][NextPass]_vars

(* The page left open with nobody at it: the only reruns are those the     *)
(* browser's timers ask for.  A run that has begun goes on to its end, a   *)
(* timer that is due fires, and time goes by.                              *)
RunStep == StartRun \/ ReconcileSymbol \/ StoreResult \/ Display \/ EndRun

NextLive ==
    \/ Tick
    \/ TimerFires
    \/ Reload
    \/ StartRun
    \/ ReconcileSymbol
    \/ StoreResult
    \/ Display
    \/ EndRun

SpecLive ==
    /\ Init
    /\ [][NextLive]_vars
    /\ WF_vars(RunStep)
    /\ WF_vars(TimerFires)
    /\ WF_vars(Reload)
    /\ WF_vars(Tick)

(* The fetchers on their own: one call, over every combination of          *)
(* responses of the chain, and its return to the caller.                   *)
CallBinance ==
    /\ call = NoCall
    /\ \E resps \in RespSeqs(Len(BinanceChain(variant))) :
          LET r == get_binance_funding(variant, resps)
          IN  call' = [exchange |-> "binance", resps |-> resps,
                       raised |-> r.raised, ret |-> r.ret, log |-> r.log]
    /\ UNCHANGED <<variant, market, mainvars>>

CallBybit ==
    /\ call = NoCall
    /\ \E resps \in RespSeqs(Len(BybitChain(variant))) :
          LET r == get_bybit_funding(variant, resps)
          IN  call' = [exchange |-> "bybit", resps |-> resps,
                       raised |-> r.raised, ret |-> r.ret, log |-> r.log]
    /\ UNCHANGED <<variant, market, mainvars>>

FetchReturn ==
    /\ call # NoCall
    /\ call' = NoCall
    /\ UNCHANGED <<variant, market, mainvars>>

NextFetch == CallBinance \/ CallBybit \/ FetchReturn

SpecFetch == Init /\ [][NextFetch]_vars

-----------------------------------------------------------------------------
(* format_funding_rate on its own: one call per step, on None or on a rate *)
(* of -MaxRate..MaxRate, which spans the three ranges, their boundaries    *)
(* (10 and 100), zero and the negative rates.                              *)

FormatInputs == {None} \cup {Some(r) : r \in -MaxRate..MaxRate}

CallFormat ==
    /\ call = NoCall
    /\ \E rate \in FormatInputs :
          call' = [fn |-> "format_funding_rate", rate |-> rate,
                   ret |-> format_funding_rate(rate)]
    /\ UNCHANGED <<variant, market>>
    /\ UNCHANGED mainvars

FormatReturn ==
    /\ call # NoCall
    /\ call' = NoCall
    /\ UNCHANGED <<variant, market>>
    /\ UNCHANGED mainvars

NextFormat == CallFormat \/ FormatReturn

SpecFormat == Init /\ [][NextFormat]_vars

-----------------------------------------------------------------------------
(* Properties.                                                             *)

\* The fetches of a pass, as returned to the loop (debug_info of app.py).
Fetched == loc.debug_info

Unresolved(d) == d.binance_raw.isNone \/ d.bybit_raw.isNone

UnresolvedIdx == {i \in 1..Len(Fetched) : Unresolved(Fetched[i])}

ResolvedIdx == {i \in 1..Len(Fetched) : ~Unresolved(Fetched[i])}

DiffAt(i) == Abs(Fetched[i].binance_raw.val - Fetched[i].bybit_raw.val)

\* A pass has been completed and stored; loc holds the locals of that pass.
PassDone == pc \in {"display", "tail", "idle"} /\ Has("total_symbols")

ChainOf(c) ==
    IF c.exchange = "binance" THEN BinanceChain(variant) ELSE BybitChain(variant)

\* C1: when the primary attempt of a fetcher call fails, for whatever reason,
\* the secondary endpoint is requested, and None is returned only after every
\* endpoint of the chain has been requested.
C1_FallbackOnAnyFailure ==
    call # NoCall =>
        /\ call.log[1].kind # "ok" => Len(call.log) >= 2
        /\ (~call.raised /\ call.ret.isNone) => Len(call.log) = Len(ChainOf(call))

\* C2: a symbol with a rate unavailable gets a row with both raw rates and the
\* difference null, and counts once in error_count.
C2_ErrorRowAllNull ==
    /\ \A i \in 1..Len(loc.rows) :
          Unresolved(Fetched[i]) =>
              /\ loc.rows[i]["Binance_Raw"].isNone
              /\ loc.rows[i]["Bybit_Raw"].isNone
              /\ loc.rows[i]["Abs_Diff_Raw"].isNone
    /\ loc.error_count = Cardinality(UnresolvedIdx)

\* C3: after a pass with a resolved symbol, max_diff is the greatest difference
\* of the resolved symbols and max_diff_symbol the first symbol that has it,
\* also when that difference is 0.
C3_MaxDiffAndFirstSymbol ==
    (PassDone /\ ResolvedIdx # {}) =>
        LET top == CHOOSE m \in {DiffAt(i) : i \in ResolvedIdx} :
                      \A j \in ResolvedIdx : DiffAt(j) <= m
            first == CHOOSE i \in ResolvedIdx :
                        /\ DiffAt(i) = top
                        /\ \A j \in ResolvedIdx : DiffAt(j) = top => i <= j
        IN  /\ ss["max_diff"] = top
            /\ ss["max_diff_symbol"] = symbols[first]

RowSound(row) ==
    /\ row["Abs_Diff_Raw"].isNone <=>
          (row["Binance_Raw"].isNone \/ row["Bybit_Raw"].isNone)
    /\ ~row["Abs_Diff_Raw"].isNone =>
          row["Abs_Diff_Raw"].val = Abs(row["Binance_Raw"].val - row["Bybit_Raw"].val)

\* C4: in every sample, built or stored, the difference is defined exactly when
\* both raw rates are, and is then |Binance_Raw - Bybit_Raw|.
C4_DiffIffBothRates ==
    /\ \A i \in 1..Len(loc.rows) : RowSound(loc.rows[i])
    /\ Has("data") => \A i \in 1..Len(ss["data"]) : RowSound(ss["data"][i])

C4_Witness ==
    /\ PassDone
    /\ \E i \in 1..Len(ss["data"]) :
          /\ ~ss["data"][i]["Abs_Diff_Raw"].isNone
          /\ ss["data"][i]["Binance_Raw"].val < ss["data"][i]["Bybit_Raw"].val
    /\ \E i \in 1..Len(ss["data"]) :
          /\ Unresolved(Fetched[i])
          /\ ss["data"][i]["Abs_Diff_Raw"].isNone

C5_Counts ==
    PassDone =>
        /\ ss["total_symbols"] = Len(symbols)
        /\ ss["error_count"] = Cardinality(UnresolvedIdx)
        /\ rendered.shown =>
              /\ rendered.total = Len(symbols)
              /\ rendered.active = Cardinality(ResolvedIdx)

C5_UnresolvedKeepsMax ==
    (/\ pc = "loop"
     /\ Len(loc'.debug_info) = Len(loc.debug_info) + 1
     /\ Unresolved(loc'.debug_info[Len(loc'.debug_info)]))
    => /\ loc'.max_diff = loc.max_diff
       /\ loc'.max_diff_symbol = loc.max_diff_symbol

\* C5: after a pass total_symbols is the number of symbols, error_count the
\* number of symbols with a rate unavailable, the Active Pairs shown the number
\* of symbols with both rates; and an iteration for a symbol with a rate
\* unavailable leaves max_diff and max_diff_symbol as they were.
C5_CountsAndMax == []C5_Counts /\ [][C5_UnresolvedKeepsMax]_vars

C5_Witness ==
    /\ PassDone
    /\ rendered.shown
    /\ ss["error_count"] = 1
    /\ Unresolved(Fetched[2])
    /\ ss["max_diff"] > 0

\* C6: the stored result has one sample per configured symbol, in the order of
\* the list.
C6_OneSamplePerSymbolInOrder ==
    PassDone =>
        /\ Len(ss["data"]) = Len(symbols)
        /\ \A i \in 1..Len(symbols) : ss["data"][i]["Symbol"] = symbols[i]

C6_Witness ==
    /\ PassDone
    /\ Unresolved(Fetched[1])
    /\ ~Unresolved(Fetched[Len(symbols)])

C7_NoPartialResult ==
    /\ pc \in {"display", "tail"} /\ Has("data") /\ ss["data"] # <<>>
          => Len(ss["data"]) = Len(symbols)
    /\ pc = "loop" /\ idx <= Len(symbols) => /\ Len(loc.rows) = idx - 1
                                             /\ ENABLED ReconcileSymbol

C7_StoreAtEnd ==
    pc = "loop" =>
        /\ pc' \in {"loop", "display"}
        /\ (pc' = "loop" /\ idx' # idx) => (idx' = idx + 1 /\ ss' = ss)
        /\ (pc' = "display" \/ ss' # ss) =>
              /\ Len(loc.rows) = Len(symbols)
              /\ loc.total_symbols = Len(symbols)
              /\ ss'["data"] = loc.rows
              /\ ss'["total_symbols"] = loc.total_symbols
              /\ ss'["error_count"] = loc.error_count
              /\ ss'["max_diff"] = loc.max_diff
              /\ ss'["max_diff_symbol"] = loc.max_diff_symbol
              /\ ss'["last_refresh"] = current_time

\* C7: a pass goes through every symbol, whatever fails; the session state is
\* written once, after the last symbol, with the whole result; the display
\* reads a result with every symbol in it.
C7_PassRunsToCompletion == []C7_NoPartialResult /\ [][C7_StoreAtEnd]_vars

C7_Witness ==
    /\ pc = "tail"
    /\ rendered.shown
    /\ clock > 0
    /\ Unresolved(Fetched[1])
    /\ ~Unresolved(Fetched[Len(symbols)])
    /\ Len(ss["data"]) = Len(symbols)

\* C8: a fetcher call ends by returning a rate or None: no exception leaves
\* it, whatever each attempt comes to.
C8_FetcherNeverRaises ==
    call # NoCall =>
        /\ ~call.raised
        /\ call.ret.isNone \/ call.ret.val \in Rates

C8_Witness ==
    /\ call # NoCall
    /\ call.ret.isNone
    /\ \E i \in 1..Len(call.log) : call.log[i].kind = "unparsable"
    /\ \E i \in 1..Len(call.log) : call.log[i].kind = "timeout"

\* The colour of a category, as the scripts' legend gives it.
ColourOfRate(rate) ==
    IF rate.isNone THEN Red            \* error
    ELSE IF rate.val > 0 THEN Green    \* positive
    ELSE IF rate.val < 0 THEN Red      \* negative
    ELSE Grey                          \* neutral

\* C9: in the rendered table each exchange cell has the colour of the category
\* of the sample's raw rate: error, positive, negative or neutral.
C9_CellColourFollowsRate ==
    (rendered.shown /\ rendered.table # <<>>) =>
        \A i \in 1..Len(rendered.table) :
            /\ rendered.table[i][2] = ColourOfRate(ss["data"][i]["Binance_Raw"])
            /\ rendered.table[i][3] = ColourOfRate(ss["data"][i]["Bybit_Raw"])

\* C10: in the rendered table the Abs Diff cell has the significant style
\* exactly when the sample's difference is present and greater than 0.0001.
C10_SignificantIffAboveThreshold ==
    (rendered.shown /\ rendered.table # <<>>) =>
        \A i \in 1..Len(rendered.table) :
            rendered.table[i][4] = Significant <=>
                /\ ~ss["data"][i]["Abs_Diff_Raw"].isNone
                /\ ss["data"][i]["Abs_Diff_Raw"].val > SignificantDiff


-----------------------------------------------------------------------------
\* The percentage of a formatted rate, as the function computes it.
PercentageOf(c) == Times100(c.rate.val)

\* C11: format_funding_rate returns "ERR" exactly when its input is None; for
\* a present rate the percentage p = rate * 100 selects the format: 4 decimal
\* places when |p| >= 0.001, 5 decimal places when 0.0001 <= |p| < 0.001,
\* scientific notation with 2 decimals when |p| < 0.0001, each followed by
\* '%'; exactly one of the three applies to every p.
C11_FormatByMagnitude ==
    call # NoCall =>
        /\ call.ret.fmt = "ERR" <=> call.rate.isNone
        /\ call.rate.isNone => call.ret = ERR
        /\ ~call.rate.isNone =>
              LET p == PercentageOf(call)
                  large == AbsAtLeast(p, 100)
                  mid == AbsAtLeast(p, 10) /\ ~AbsAtLeast(p, 100)
                  small == ~AbsAtLeast(p, 10)
              IN  /\ call.ret.suffix = "%"
                  /\ large <=> (call.ret.fmt = "f4" /\ call.ret.exp = -4)
                  /\ mid <=> (call.ret.fmt = "f5" /\ call.ret.exp = -5)
                  /\ small <=> call.ret.fmt = "e2"
                  /\ call.ret.fmt \in {"f4", "f5", "e2"}

\* A negative rate on the boundary of the 4-decimal range, -0.00001, has been
\* formatted as -0.0010%.
C11_Witness ==
    /\ call # NoCall
    /\ call.rate = Some(-100)
    /\ call.ret = [fmt |-> "f4", mant |-> -10, exp |-> -4, suffix |-> "%"]

\* C13: a fetcher call requests the endpoints of its chain in chain order,
\* each at most once (at most 2 requests in app.py; at most 3 for Binance and
\* 2 for Bybit in streamlit_app.py), and an attempt that yields a rate is the
\* last request of the call.
C13_EachEndpointOnceInOrder ==
    call # NoCall =>
        LET chain == ChainOf(call)
            n == Len(call.log)
        IN  /\ n >= 1
            /\ n <= Len(chain)
            /\ n <= (IF variant = "streamlit" /\ call.exchange = "binance"
                     THEN 3 ELSE 2)
            /\ \A i \in 1..n : call.log[i].endpoint = chain[i]
            /\ \A i, j \in 1..n :
                  call.log[i].endpoint = call.log[j].endpoint => i = j
            /\ \A i \in 1..n :
                  call.log[i].kind = "ok" =>
                      /\ i = n
                      /\ call.ret = Some(call.resps[i].rate)

\* The Binance fetcher of streamlit_app.py has requested its three endpoints
\* and the third has yielded the rate it returns.
C13_Witness ==
    /\ call # NoCall
    /\ variant = "streamlit"
    /\ call.exchange = "binance"
    /\ Len(call.log) = 3
    /\ call.log[3].kind = "ok"
    /\ ~call.ret.isNone

\* The keys a pass stores for the display.
ResultKeys == {"total_symbols", "error_count", "max_diff", "max_diff_symbol", "data"}

\* The gate as the session state has it when a run begins: no last_refresh
\* yet (first run), last_refresh 0, or more than 60 seconds since last_refresh.
PassDue ==
    \/ ~Has("last_refresh")
    \/ ss["last_refresh"] = 0
    \/ Now - ss["last_refresh"] > RefreshAfter

RerunScheduled == timer \in {"autorefresh", "reload", "reload_due"}

\* C12: with the page open and nobody at it, whenever a run has ended after a
\* reconciliation pass was stored, a further automatic rerun is scheduled: the
\* page is never left showing a pass with nothing to bring the next one.
C12_AutoRefreshStaysScheduled ==
    (pc = "idle" /\ PassDone) => RerunScheduled

=========================================================================
